---- MODULE Spec2Model ----
(***************************************************************************)
(* Model of src/lambda_handler.py: the IAM access-key rotation sweep       *)
(* (rotate_keys_for_users) with its classifier                             *)
(* (get_access_key_creation_date_from_iam) and its collaborators: the IAM  *)
(* credential store, the Snowflake table and the e-mail Lambda.            *)
(*                                                                         *)
(* Time is counted in seconds.  Lines 389, 423 and 424 of the source are   *)
(* indented with tabs; the model reads them at the indentation of the      *)
(* statements around them (tab width 4).                                   *)
(***************************************************************************)
EXTENDS Integers, Sequences, FiniteSets, TLC

\* ------------------------------------------------------------------ bounds
MaxUsers == 2        \* rows of the Snowflake table
MaxElapsed == 1      \* seconds between the two datetime.now() calls of a user
MaxThreshold == 2    \* largest threshold drawn for the classifier
MaxSweepDays == 8    \* days over which the scheduled passes are followed

\* --------------------------------------------------------------- constants
\* the number of access keys IAM lets a user hold; the branches of
\* rotate_keys_for_users stop at len(access_key_data) == 2 (line 419)
IamKeyQuota == 2

\* defaults of the thresholds (lines 27-30)
DefaultKeyExpiration == 83
DefaultReminderPeriod == 1
DefaultGracePeriod == 7

VARIABLES
  TIME_UNIT,                  \* module configuration, read once at import
  KEY_EXPIRATION_THRESHOLD,
  REMINDER_PERIOD_THRESHOLD,
  GRACE_PERIOD_THRESHOLD,
  now,                        \* datetime.now() at the listing
  table,                      \* Snowflake rows, in query order
  iam,                        \* IAM: username -> sequence of access keys
  nextId,                     \* next AccessKeyId IAM hands out
  pc,                         \* position of lambda_handler / rotate_keys_for_users
  conn,                       \* the Snowflake connection, or None (FALSE)
  users,                      \* cur.fetchall() of rotate_keys_for_users
  idx,                        \* position of the for loop in users
  access_key_data,            \* local of rotate_keys_for_users
  key_id,                     \* local of rotate_keys_for_users (function scope)
  access_key,                 \* local: the new key id, or None (0)
  calls,                      \* collaborator calls made for the current user
  evaluated                   \* users whose keys were listed in this pass

config == <<TIME_UNIT, KEY_EXPIRATION_THRESHOLD, REMINDER_PERIOD_THRESHOLD,
            GRACE_PERIOD_THRESHOLD, now>>
vars == <<TIME_UNIT, KEY_EXPIRATION_THRESHOLD, REMINDER_PERIOD_THRESHOLD,
          GRACE_PERIOD_THRESHOLD, now, table, iam, nextId, pc, conn, users,
          idx, access_key_data, key_id, access_key, calls, evaluated>>

None == 0
Unbound == -1                 \* a local name that was never assigned

\* ---------------------------------------------------------- time thresholds
\* timedelta(<unit>=1) in seconds
UnitSeconds(unit) ==
  CASE unit = "days" -> 86400
    [] unit = "hours" -> 3600
    [] unit = "minutes" -> 60
    [] unit = "seconds" -> 1
    [] OTHER -> 86400

get_time_threshold(time_threshold) == time_threshold * UnitSeconds(TIME_UNIT)

ExpirationThreshold == get_time_threshold(KEY_EXPIRATION_THRESHOLD)
GraceThreshold == get_time_threshold(GRACE_PERIOD_THRESHOLD)
ReminderThreshold == get_time_threshold(REMINDER_PERIOD_THRESHOLD)

\* ---------------------------------------------------------------- classifier
key_status_off_by_one(key_age) ==
  IF key_age >= ExpirationThreshold + GraceThreshold THEN "expired"
  ELSE IF key_age >= ExpirationThreshold THEN "about_to_expire"
  ELSE "active"

\* lines 119-124
key_status(key_age) ==
  IF key_age > ExpirationThreshold + GraceThreshold THEN "expired"
  ELSE IF key_age > ExpirationThreshold THEN "about_to_expire"
  ELSE "active"

\* lines 113-138: the loop over access_keys; frt is final_reminder_threshold,
\* which line 126 reassigns in every iteration
RECURSIVE classify_loop(_, _, _)
classify_loop(access_keys, frt, key_creation_dates) ==
  IF access_keys = <<>> THEN key_creation_dates
  ELSE LET key == Head(access_keys)
           creation_date == key.CreateDate
           key_age == now - creation_date
           final_reminder_threshold ==
             ExpirationThreshold + GraceThreshold - frt
           send_final_reminder ==
             /\ final_reminder_threshold <= key_age
             /\ key_age <= ExpirationThreshold + GraceThreshold
       IN classify_loop(Tail(access_keys), final_reminder_threshold,
            Append(key_creation_dates,
              [AccessKeyId |-> key.AccessKeyId,
               CreateDate |-> creation_date,
               KeyAge |-> key_age,
               Status |-> key_status(key_age),
               FinalReminder |-> send_final_reminder]))

\* get_access_key_creation_date_from_iam; ok = FALSE is list_access_keys raising
get_access_key_creation_date_from_iam(username, ok) ==
  IF ok THEN classify_loop(iam[username], ReminderThreshold, <<>>)
  ELSE <<>>

\* ------------------------------------------------------------ collaborators
\* base64_encode / base64_decode of a stored key (lines 81-98)
base64_encode(data) == <<"b64", data>>
base64_decode(data) == data[2]

Call(op, ok, old, key) == [op |-> op, ok |-> ok, old |-> old, key |-> key]

RECURSIVE SetInactive(_, _)
SetInactive(keys, id) ==
  IF keys = <<>> THEN <<>>
  ELSE <<IF Head(keys).AccessKeyId = id
         THEN [Head(keys) EXCEPT !.Status = "Inactive"] ELSE Head(keys)>>
       \o SetInactive(Tail(keys), id)

RECURSIVE RemoveKey(_, _)
RemoveKey(keys, id) ==
  IF keys = <<>> THEN <<>>
  ELSE (IF Head(keys).AccessKeyId = id THEN <<>> ELSE <<Head(keys)>>)
       \o RemoveKey(Tail(keys), id)

\* iam_client.create_access_key (line 149): IAM refuses a third key of a user
iam_create_allowed(keys) == Len(keys) < IamKeyQuota

\* lines 163-175 of deactivate_old_aws_access_keys: the zip loop.  budget is
\* the number of IAM calls that succeed before one raises; an exception
\* leaves the loop (line 176).
RECURSIVE deactivate_loop(_, _, _, _, _, _)
deactivate_loop(access_key_ids, key_creation_dates, nw, keys, log, budget) ==
  IF access_key_ids = <<>> \/ key_creation_dates = <<>>
  THEN [keys |-> keys, calls |-> log]
  ELSE LET access_key_id == Head(access_key_ids)
           key_age == nw - Head(key_creation_dates)
       IN IF key_age > ExpirationThreshold
             /\ key_age > ExpirationThreshold + GraceThreshold
          THEN IF budget = 0
               THEN [keys |-> keys,
                     calls |-> Append(log, Call("update", FALSE, 0, access_key_id))]
               ELSE IF budget = 1
               THEN [keys |-> SetInactive(keys, access_key_id),
                     calls |-> log \o <<Call("update", TRUE, 0, access_key_id),
                                        Call("delete", FALSE, 0, access_key_id)>>]
               ELSE deactivate_loop(Tail(access_key_ids), Tail(key_creation_dates),
                      nw, RemoveKey(keys, access_key_id),
                      log \o <<Call("update", TRUE, 0, access_key_id),
                               Call("delete", TRUE, 0, access_key_id)>>,
                      budget - 2)
          ELSE deactivate_loop(Tail(access_key_ids), Tail(key_creation_dates),
                 nw, keys, log, budget)

\* ------------------------------------------------- rotate_keys_for_users
IsExpired(key) == key.Status = "expired"
expired_keys(data) == SelectSeq(data, IsExpired)
final_reminder(data) == \E i \in 1..Len(data) : data[i].FinalReminder

AfterFinal_active_creates(data) ==
  IF Len(data) = 1 THEN "create"
  ELSE IF Len(expired_keys(data)) \in {1, 2} THEN "deactivate" ELSE "create"

\* where the branch of lines 383-444 goes after the final-notice block
AfterFinal(data) ==
  IF Len(data) = 1
  THEN IF data[1].Status \in {"expired", "about_to_expire"} THEN "create" ELSE "next"
  ELSE IF Len(expired_keys(data)) \in {1, 2} THEN "deactivate" ELSE "next"

AfterList_two_or_more(data) ==
  IF Len(data) = 0 THEN "create"
  ELSE IF final_reminder(data) THEN "final" ELSE AfterFinal(data)

AfterList_without_final(data) ==
  IF Len(data) = 0 THEN "create"
  ELSE IF Len(data) \in {1, 2} THEN AfterFinal(data)
  ELSE "next"

\* lines 370, 383, 419: the branch on len(access_key_data)
AfterList(data) ==
  IF Len(data) = 0 THEN "create"
  ELSE IF Len(data) \in {1, 2}
  THEN IF final_reminder(data) THEN "final" ELSE AfterFinal(data)
  ELSE "next"

AfterStore_without_deactivate(data) == "notify"

\* lines 398-400 against 410-412 and 376-377: what follows store_keys_in_snowflake
AfterStore(data) ==
  IF Len(data) = 1 /\ data[1].Status = "expired" THEN "deactivate" ELSE "notify"

AfterDeactivate_always_create(data) ==
  IF Len(data) = 1 THEN "notify" ELSE "create"

\* what follows deactivate_old_aws_access_keys (lines 400-401, 431-432, 444)
AfterDeactivate(data) ==
  IF Len(data) = 1 THEN "notify"
  ELSE IF Len(expired_keys(data)) = 2 THEN "create" ELSE "next"

DeactivateTargets_first_only(data) ==
  IF Len(data) = 1 THEN <<data[1]>> ELSE <<expired_keys(data)[1]>>

\* the keys handed to deactivate_old_aws_access_keys (lines 400, 431, 444)
DeactivateTargets(data) ==
  IF Len(data) = 1 THEN <<data[1]>>
  ELSE IF Len(expired_keys(data)) = 2 THEN expired_keys(data)
  ELSE <<expired_keys(data)[1]>>

\* the old key named in the new-key notification (lines 378, 402, 413, 436)
OldKeyOfNotice(data) ==
  IF Len(data) = 0 THEN None
  ELSE IF Len(data) = 1 THEN key_id
  ELSE expired_keys(data)[Len(expired_keys(data))].AccessKeyId

username == users[idx]

RECURSIVE SelectRows_all(_)
SelectRows_all(rows) ==
  IF rows = <<>> THEN <<>>
  ELSE <<Head(rows).USERNAME>> \o SelectRows_all(Tail(rows))

RECURSIVE SelectRows(_)
SelectRows(rows) ==
  IF rows = <<>> THEN <<>>
  ELSE (IF Head(rows).SKIP_KEY_ROTATION = "N" THEN <<Head(rows).USERNAME>> ELSE <<>>)
       \o SelectRows(Tail(rows))

\* ------------------------------------------------------------------ actions
\* lambda_handler line 457: get_snowflake_connection returns None on failure;
\* rotate_keys_for_users does nothing without a connection (line 349)
Connect ==
  /\ pc = "connect"
  /\ \E ok \in BOOLEAN :
       /\ conn' = ok
       /\ pc' = IF ok THEN "query" ELSE "done"
  /\ UNCHANGED <<config, table, iam, nextId, users, idx, access_key_data,
                 key_id, access_key, calls, evaluated>>

\* lines 351-359: SELECT ... WHERE SKIP_KEY_ROTATION = 'N'
Query ==
  /\ pc = "query"
  /\ \E ok \in BOOLEAN :
       IF ok
       THEN /\ users' = SelectRows(table)
            /\ idx' = 1
            /\ pc' = IF SelectRows(table) = <<>> THEN "commit" ELSE "list"
       ELSE /\ pc' = "except"
            /\ UNCHANGED <<users, idx>>
  /\ UNCHANGED <<config, table, iam, nextId, conn, access_key_data,
                 key_id, access_key, calls, evaluated>>

\* lines 362-388 and 419-423: list and classify the user's keys, then branch
ListKeys ==
  /\ pc = "list"
  /\ \E ok \in BOOLEAN :
       LET data == get_access_key_creation_date_from_iam(username, ok)
       IN /\ access_key_data' = data
          /\ calls' = <<Call("list", ok, 0, 0)>>
          /\ key_id' = IF Len(data) = 1 THEN data[1].AccessKeyId ELSE key_id
          /\ pc' = AfterList(data)
  /\ evaluated' = evaluated \cup {username}
  /\ access_key' = None
  /\ UNCHANGED <<config, table, iam, nextId, conn, users, idx>>

\* lines 389-392 and 424-427: the final notice.  Line 425 reads key_id, which
\* the two-key branch never assigns: NameError when no earlier user bound it.
FinalNotice ==
  /\ pc = "final"
  /\ IF key_id = Unbound
     THEN /\ pc' = "except"
          /\ UNCHANGED calls
     ELSE /\ \E ok \in BOOLEAN :
               calls' = Append(calls, Call("final_notice", ok, key_id, key_id))
          /\ pc' = AfterFinal(access_key_data)
  /\ UNCHANGED <<config, table, iam, nextId, conn, users, idx, access_key_data,
                 key_id, access_key, evaluated>>

\* generate_new_aws_access_key (lines 374, 397, 409, 432)
Create ==
  /\ pc = "create"
  /\ \E ok \in BOOLEAN :
       IF ok /\ iam_create_allowed(iam[username])
       THEN /\ iam' = [iam EXCEPT ![username] = Append(@,
                         [AccessKeyId |-> nextId, CreateDate |-> now,
                          Status |-> "Active"])]
            /\ nextId' = nextId + 1
            /\ access_key' = nextId
            /\ calls' = Append(calls, Call("create", TRUE, 0, nextId))
            /\ pc' = "store"
       ELSE /\ access_key' = None
            /\ calls' = Append(calls, Call("create", FALSE, 0, None))
            /\ pc' = "next"
            /\ UNCHANGED <<iam, nextId>>
  /\ UNCHANGED <<config, table, conn, users, idx, access_key_data, key_id,
                 evaluated>>

\* store_keys_in_snowflake (lines 209-229): the exception is logged, not raised
Store ==
  /\ pc = "store"
  /\ \E ok \in BOOLEAN :
       /\ table' = IF ok
                   THEN [i \in DOMAIN table |->
                          IF table[i].USERNAME = username
                          THEN [table[i] EXCEPT !.ACCESS_KEY = base64_encode(access_key)]
                          ELSE table[i]]
                   ELSE table
       /\ calls' = Append(calls, Call("persist", ok, 0, access_key))
  /\ pc' = AfterStore(access_key_data)
  /\ UNCHANGED <<config, iam, nextId, conn, users, idx, access_key_data,
                 key_id, access_key, evaluated>>

\* deactivate_old_aws_access_keys (lines 157-177); its own datetime.now()
Deactivate ==
  /\ pc = "deactivate"
  /\ LET targets == DeactivateTargets(access_key_data)
         ids == [i \in 1..Len(targets) |-> targets[i].AccessKeyId]
         dates == [i \in 1..Len(targets) |-> targets[i].CreateDate]
     IN \E elapsed \in 0..MaxElapsed, budget \in 0..(2 * Len(targets)) :
          LET r == deactivate_loop(ids, dates, now + elapsed,
                                   iam[username], calls, budget)
          IN /\ iam' = [iam EXCEPT ![username] = r.keys]
             /\ calls' = r.calls
  /\ pc' = AfterDeactivate(access_key_data)
  /\ UNCHANGED <<config, table, nextId, conn, users, idx, access_key_data,
                 key_id, access_key, evaluated>>

\* send_email for the new key (lines 377, 401, 412, 435)
Notify ==
  /\ pc = "notify"
  /\ \E ok \in BOOLEAN :
       calls' = Append(calls, Call("newkey_notice", ok,
                                   OldKeyOfNotice(access_key_data), access_key))
  /\ pc' = "next"
  /\ UNCHANGED <<config, table, iam, nextId, conn, users, idx, access_key_data,
                 key_id, access_key, evaluated>>

\* line 361: the for loop moves to the next user
NextUser ==
  /\ pc = "next"
  /\ idx' = idx + 1
  /\ pc' = IF idx + 1 > Len(users) THEN "commit" ELSE "list"
  /\ calls' = <<>>
  /\ UNCHANGED <<config, table, iam, nextId, conn, users, access_key_data,
                 key_id, access_key, evaluated>>

\* lines 446-447
Commit ==
  /\ pc = "commit"
  /\ \E ok \in BOOLEAN : pc' = IF ok THEN "done" ELSE "except"
  /\ UNCHANGED <<config, table, iam, nextId, conn, users, idx, access_key_data,
                 key_id, access_key, calls, evaluated>>

\* lines 449-450: the only handler around the loop; the pass ends
Except ==
  /\ pc = "except"
  /\ pc' = "done"
  /\ UNCHANGED <<config, table, iam, nextId, conn, users, idx, access_key_data,
                 key_id, access_key, calls, evaluated>>

\* ------------------------------------------------------------ initial state
Usernames == 1..MaxUsers

\* key ages that meet every class of the default policy
AgeSamples ==
  {0, ExpirationThreshold, ExpirationThreshold + 1,
   ExpirationThreshold + GraceThreshold,
   ExpirationThreshold + GraceThreshold + 1}

\* the age lists of the keys a user can hold
KeyLists(ages) ==
  UNION {[1..n -> ages] : n \in 0..IamKeyQuota}

KeysFromAges(u, a) ==
  [j \in 1..Len(a) |-> [AccessKeyId |-> (u - 1) * (IamKeyQuota + 1) + j,
                        CreateDate |-> now - a[j],
                        Status |-> "Active"]]

\* a NULL column of the Snowflake row
SqlNull == <<>>

StoredKey(keys) ==
  IF keys = <<>> THEN SqlNull ELSE base64_encode(keys[Len(keys)].AccessKeyId)

InitLocals ==
  /\ nextId = MaxUsers * (IamKeyQuota + 1) + 1
  /\ pc = "connect"
  /\ conn = FALSE
  /\ users = <<>>
  /\ idx = 1
  /\ access_key_data = <<>>
  /\ key_id = Unbound
  /\ access_key = None
  /\ calls = <<>>
  /\ evaluated = {}

\* ages of the keys of a row that the query leaves out
SkipAgeSamples ==
  {ExpirationThreshold + GraceThreshold,
   ExpirationThreshold + GraceThreshold + 1}

\* the module as imported with no environment override (lines 27-30), a table
\* of MaxUsers rows and their keys in IAM
Init ==
  /\ TIME_UNIT = "days"
  /\ KEY_EXPIRATION_THRESHOLD = DefaultKeyExpiration
  /\ REMINDER_PERIOD_THRESHOLD = DefaultReminderPeriod
  /\ GRACE_PERIOD_THRESHOLD = DefaultGracePeriod
  /\ now = 0
  /\ \E ages \in [Usernames -> KeyLists(AgeSamples)],
        skip \in [Usernames -> {"N", "Y"}] :
       /\ \A u \in Usernames :
            skip[u] = "Y" => ages[u] \in KeyLists(SkipAgeSamples)
       /\ iam = [u \in Usernames |-> KeysFromAges(u, ages[u])]
       /\ table = [u \in Usernames |->
                    [USERNAME |-> u,
                     ACCESS_KEY |-> StoredKey(KeysFromAges(u, ages[u])),
                     SKIP_KEY_ROTATION |-> skip[u]]]
  /\ InitLocals

Next ==
  \/ Connect
  \/ Query
  \/ ListKeys
  \/ FinalNotice
  \/ Create
  \/ Store
  \/ Deactivate
  \/ Notify
  \/ NextUser
  \/ Commit
  \/ Except

Spec == Init /\ [][Next]_vars

\* ------------------------------------------------- the classifier on its own
\* every key age within one second of a multiple of the time unit, up to one
\* unit past expiration + grace
ClassifierAges ==
  {a \in {t * UnitSeconds(TIME_UNIT) + d :
            t \in 0..(KEY_EXPIRATION_THRESHOLD + GRACE_PERIOD_THRESHOLD + 1),
            d \in {-1, 0, 1}} : a >= 0}

\* any configuration that keeps the policy invariant (durations >= 0,
\* reminder lead <= expiration + grace); user 1 is about to be listed
InitClassify ==
  /\ TIME_UNIT \in {"days", "hours", "minutes", "seconds", "weeks"}
  /\ KEY_EXPIRATION_THRESHOLD \in 0..MaxThreshold
  /\ GRACE_PERIOD_THRESHOLD \in 0..MaxThreshold
  /\ REMINDER_PERIOD_THRESHOLD \in 0..MaxThreshold
  /\ REMINDER_PERIOD_THRESHOLD <= KEY_EXPIRATION_THRESHOLD + GRACE_PERIOD_THRESHOLD
  /\ now = 0
  /\ \E ages \in KeyLists(ClassifierAges) :
       /\ iam = [u \in Usernames |-> IF u = 1 THEN KeysFromAges(u, ages) ELSE <<>>]
       /\ table = [u \in Usernames |->
                    [USERNAME |-> u,
                     ACCESS_KEY |-> StoredKey(iam[u]),
                     SKIP_KEY_ROTATION |-> "N"]]
  /\ nextId = MaxUsers * (IamKeyQuota + 1) + 1
  /\ pc = "list"
  /\ conn = TRUE
  /\ users = SelectRows(table)
  /\ idx = 1
  /\ access_key_data = <<>>
  /\ key_id = Unbound
  /\ access_key = None
  /\ calls = <<>>
  /\ evaluated = {}

NextClassify == ListKeys

SpecClassify == InitClassify /\ [][NextClassify]_vars

\* --------------------------------------- a listing longer than two keys
\* as Init, but list_access_keys returns IamKeyQuota + 1 keys for one user
InitOver ==
  /\ TIME_UNIT = "days"
  /\ KEY_EXPIRATION_THRESHOLD = DefaultKeyExpiration
  /\ REMINDER_PERIOD_THRESHOLD = DefaultReminderPeriod
  /\ GRACE_PERIOD_THRESHOLD = DefaultGracePeriod
  /\ now = 0
  /\ \E o \in Usernames,
        over \in [1..(IamKeyQuota + 1) -> AgeSamples],
        ages \in [Usernames -> KeyLists(SkipAgeSamples)] :
       /\ iam = [u \in Usernames |->
                  KeysFromAges(u, IF u = o THEN over ELSE ages[u])]
       /\ table = [u \in Usernames |->
                    [USERNAME |-> u,
                     ACCESS_KEY |-> StoredKey(iam[u]),
                     SKIP_KEY_ROTATION |-> "N"]]
  /\ InitLocals

SpecOver == InitOver /\ [][Next]_vars

\* ------------------------------------------------------- repeated passes
\* the next scheduled invocation of lambda_handler, a day or a grace period
\* after the last one: a new connection, and the locals of
\* rotate_keys_for_users are unbound again
NewPass ==
  /\ pc = "done"
  /\ \E delta \in {UnitSeconds(TIME_UNIT), GraceThreshold} :
       /\ now + delta <= MaxSweepDays * UnitSeconds(TIME_UNIT)
       /\ now' = now + delta
  /\ pc' = "connect"
  /\ conn' = FALSE
  /\ users' = <<>>
  /\ idx' = 1
  /\ access_key_data' = <<>>
  /\ key_id' = Unbound
  /\ access_key' = None
  /\ calls' = <<>>
  /\ evaluated' = {}
  /\ UNCHANGED <<TIME_UNIT, KEY_EXPIRATION_THRESHOLD, REMINDER_PERIOD_THRESHOLD,
                 GRACE_PERIOD_THRESHOLD, table, iam, nextId>>

\* user 1 holds one key that is at the end of its valid period or in its
\* grace period; the other rows are left out of the rotation
InitPasses ==
  /\ TIME_UNIT = "days"
  /\ KEY_EXPIRATION_THRESHOLD = DefaultKeyExpiration
  /\ REMINDER_PERIOD_THRESHOLD = DefaultReminderPeriod
  /\ GRACE_PERIOD_THRESHOLD = DefaultGracePeriod
  /\ now = 0
  /\ \E age \in {ExpirationThreshold, ExpirationThreshold + 1,
                  ExpirationThreshold + GraceThreshold} :
       iam = [u \in Usernames |->
               KeysFromAges(u, IF u = 1 THEN <<age>>
                               ELSE <<ExpirationThreshold + GraceThreshold + 1>>)]
  /\ table = [u \in Usernames |->
               [USERNAME |-> u,
                ACCESS_KEY |-> StoredKey(iam[u]),
                SKIP_KEY_ROTATION |-> IF u = 1 THEN "N" ELSE "Y"]]
  /\ InitLocals

NextPasses ==
  \/ Next
  \/ NewPass

SpecPasses == InitPasses /\ [][NextPasses]_vars

\* ===================================================================== claims
HasCall(op, ok) == \E i \in DOMAIN calls : calls[i].op = op /\ calls[i].ok = ok
Made(op) == {i \in DOMAIN calls : calls[i].op = op}
Listed == HasCall("list", TRUE)
PersistedKey(u) ==
  LET row == table[CHOOSE i \in DOMAIN table : table[i].USERNAME = u]
  IN IF row.ACCESS_KEY = SqlNull THEN None ELSE base64_decode(row.ACCESS_KEY)
ExpirationAge == KEY_EXPIRATION_THRESHOLD * UnitSeconds(TIME_UNIT)
GracePeriod == GRACE_PERIOD_THRESHOLD * UnitSeconds(TIME_UNIT)
FinalReminderLead == REMINDER_PERIOD_THRESHOLD * UnitSeconds(TIME_UNIT)
Classified == pc # "list" /\ Listed

\* C1: when the pass has finished processing a principal, that principal
\* holds at least one credential in IAM, whatever the statuses of its keys
\* and whether or not create_access_key succeeded.  Stated for the principals
\* that held a key when they were listed: a principal without keys whose
\* create call fails has nothing to keep.
C1_AtLeastOneCredential ==
  (pc = "next" /\ Len(access_key_data) >= 1) => Len(iam[username]) >= 1

\* C2: every update_access_key / delete_access_key call made for a principal
\* comes after a successful create_access_key and a successful persistence
\* write for that principal in the same pass.
C2_DeleteOnlyAfterReplacement ==
  \A i \in DOMAIN calls :
    calls[i].op \in {"update", "delete"} =>
      /\ \E j \in 1..(i - 1) : calls[j].op = "create" /\ calls[j].ok
      /\ \E j \in 1..(i - 1) : calls[j].op = "persist" /\ calls[j].ok

\* C3: when create_access_key succeeded and store_keys_in_snowflake failed
\* for a principal, no key of that principal is deactivated or deleted in
\* the pass.
C3_NoDeleteAfterFailedPersist ==
  (HasCall("create", TRUE) /\ HasCall("persist", FALSE)) =>
    (Made("update") = {} /\ Made("delete") = {})

\* C4: once a principal with one or two keys has been processed, no key that
\* the pass classified 'expired' is still present and Active in IAM.  Stated
\* for the principals none of whose collaborator calls failed.
C4_NoExpiredKeyLeftActive ==
  (/\ pc \in {"next", "except", "done"}
   /\ Len(access_key_data) \in {1, 2}
   /\ \A i \in DOMAIN calls : calls[i].ok) =>
    \A i \in DOMAIN access_key_data :
      access_key_data[i].Status = "expired" =>
        ~ \E k \in DOMAIN iam[username] :
            /\ iam[username][k].AccessKeyId = access_key_data[i].AccessKeyId
            /\ iam[username][k].Status = "Active"

\* C5: when the pass is over, every user the query returned has been
\* evaluated, whatever failed for the users before it.
C5_EveryUserEvaluated ==
  pc = "done" => \A i \in DOMAIN users : users[i] \in evaluated

\* C6: the classifier gives 'expired' exactly when age > expirationAge +
\* gracePeriod, 'about_to_expire' exactly when expirationAge < age <=
\* expirationAge + gracePeriod, and 'active' otherwise.
C6_StatusByAge ==
  Classified =>
    \A i \in DOMAIN access_key_data :
      LET age == now - access_key_data[i].CreateDate
          st == access_key_data[i].Status
      IN /\ age = access_key_data[i].KeyAge
         /\ st = "expired" <=> age > ExpirationAge + GracePeriod
         /\ st = "about_to_expire" <=>
              (ExpirationAge < age /\ age <= ExpirationAge + GracePeriod)
         /\ st = "active" <=> age <= ExpirationAge

C6_Witness ==
  /\ Classified
  /\ Len(access_key_data) = 2
  /\ GracePeriod > 0
  /\ access_key_data[1].KeyAge = ExpirationAge
  /\ access_key_data[1].Status = "active"
  /\ access_key_data[2].KeyAge = ExpirationAge + GracePeriod
  /\ access_key_data[2].Status = "about_to_expire"

\* C7: for every key of a listing, first or second, FinalReminder is true
\* exactly when expirationAge + gracePeriod - finalReminderLead <= age <=
\* expirationAge + gracePeriod.
C7_FinalReminderWindow ==
  Classified =>
    \A i \in DOMAIN access_key_data :
      access_key_data[i].FinalReminder <=>
        /\ ExpirationAge + GracePeriod - FinalReminderLead <= access_key_data[i].KeyAge
        /\ access_key_data[i].KeyAge <= ExpirationAge + GracePeriod

\* C8: no key of a listing has FinalReminder true unless its status is
\* 'about_to_expire'.
C8_ReminderOnlyWhenAboutToExpire ==
  Classified =>
    \A i \in DOMAIN access_key_data :
      access_key_data[i].FinalReminder =>
        access_key_data[i].Status = "about_to_expire"

\* C9: for a principal with no keys the pass makes exactly one create call and
\* no deactivate / delete call, and the new key is in the Snowflake row by the
\* time the new-key notification is sent.
C9_ZeroKeysBootstrap ==
  (Listed /\ access_key_data = <<>>) =>
    /\ pc = "next" =>
         /\ Cardinality(Made("create")) = 1
         /\ Made("update") = {} /\ Made("delete") = {}
    /\ HasCall("newkey_notice", TRUE) => PersistedKey(username) = access_key

\* C10: for a principal whose only key is 'expired' the pass calls create,
\* then the persistence write, then deactivate-and-delete of the old key id;
\* when every call succeeds the principal ends with exactly the new key, and
\* when create fails the old key is not deleted.
C10_SingleExpired ==
  (pc = "next" /\ Len(access_key_data) = 1
     /\ access_key_data[1].Status = "expired") =>
    LET old == access_key_data[1].AccessKeyId
        ids == {iam[username][k].AccessKeyId : k \in DOMAIN iam[username]}
    IN /\ Cardinality(Made("create")) = 1
       /\ HasCall("create", TRUE) =>
            \E c \in Made("create"), p \in Made("persist"), d \in Made("update") :
              /\ c < p /\ p < d
              /\ calls[d].key = old
              /\ \A x \in Made("update") \cup Made("delete") :
                   x >= d /\ calls[x].key = old
       /\ (\A i \in DOMAIN calls : calls[i].ok) =>
            /\ ids = {access_key}
            /\ access_key # old /\ access_key # None
       /\ HasCall("create", FALSE) =>
            /\ old \in ids
            /\ Made("update") = {} /\ Made("delete") = {}
            /\ Made("persist") = {}

C10_Witness ==
  /\ pc = "next"
  /\ Len(access_key_data) = 1
  /\ access_key_data[1].Status = "expired"
  /\ \A i \in DOMAIN calls : calls[i].ok
  /\ HasCall("delete", TRUE)
  /\ Len(iam[username]) = 1
  /\ iam[username][1].AccessKeyId = access_key

\* ----------------------------------------------------------------- C11 - C20
DataIds == {access_key_data[i].AccessKeyId : i \in DOMAIN access_key_data}
IamIds(u) == {iam[u][k].AccessKeyId : k \in DOMAIN iam[u]}
\* the keys of the listing are in IAM as they were listed, still Active
Untouched(i) ==
  \E k \in DOMAIN iam[username] :
    iam[username][k] = [AccessKeyId |-> access_key_data[i].AccessKeyId,
                        CreateDate |-> access_key_data[i].CreateDate,
                        Status |-> "Active"]
OneKey(status) ==
  Len(access_key_data) = 1 /\ access_key_data[1].Status = status

\* C11: for a principal whose only key is 'about_to_expire' the pass makes one
\* create call and neither deactivates nor deletes the old key, which stays in
\* IAM as it was; when FinalReminder is also true the final notice is sent
\* before the create call.
C11_SingleAboutToExpire ==
  (OneKey("about_to_expire") /\ pc \in {"store", "notify", "next"}) =>
    /\ Cardinality(Made("create")) = 1
    /\ Made("update") = {} /\ Made("delete") = {}
    /\ Untouched(1)
    /\ HasCall("create", TRUE) => IamIds(username) = DataIds \cup {access_key}
    /\ HasCall("create", FALSE) => IamIds(username) = DataIds
    /\ access_key_data[1].FinalReminder =>
         \E f \in Made("final_notice"), c \in Made("create") :
           /\ f < c
           /\ calls[f].old = access_key_data[1].AccessKeyId
           /\ Cardinality(Made("final_notice")) = 1

C11_Witness ==
  /\ OneKey("about_to_expire") /\ pc = "next"
  /\ access_key_data[1].FinalReminder
  /\ HasCall("final_notice", TRUE) /\ HasCall("create", TRUE)
  /\ HasCall("newkey_notice", TRUE)
  /\ Len(iam[username]) = 2

\* C12: for a principal with two keys of which at least one has FinalReminder
\* true, exactly one final notice is sent in the pass: never none, never two.
C12_OneFinalNoticeForTwoKeys ==
  (/\ Len(access_key_data) = 2
   /\ final_reminder(access_key_data)
   /\ pc \in {"next", "except"}
   /\ idx <= Len(users)) =>
    Cardinality(Made("final_notice")) = 1

TwoKeys(nExpired) ==
  Len(access_key_data) = 2 /\ Len(expired_keys(access_key_data)) = nExpired
AllOk == \A i \in DOMAIN calls : calls[i].ok
\* the user at users[idx] is being processed, or was and the pass stopped there
InUser == idx <= Len(users) /\ pc \in {"final", "create", "store", "deactivate",
                                       "notify", "next", "except"}

\* C13 as stated: for a principal with two 'expired' keys the pass deletes
\* both, then creates a key, and the persistence write is the last call made
\* for the principal.  Stated for the principals none of whose calls failed.
C13_PersistIsLast ==
  (TwoKeys(2) /\ pc = "next" /\ AllOk) => calls[Len(calls)].op = "persist"

\* C13 as amended: for a principal with two 'expired' keys the pass first
\* calls deactivate-and-delete for the expired keys (stopping at the first
\* IAM call that raises), then makes one create call; when create succeeds
\* the persistence write follows it, no IAM call follows the write, and the
\* only call after it is the new-key notification; when no call fails the
\* principal ends with exactly the new key.
C13_BothExpired ==
  (TwoKeys(2) /\ pc = "next") =>
    /\ Cardinality(Made("create")) = 1
    /\ Made("final_notice") = {}
    /\ \A x \in Made("update") \cup Made("delete"), c \in Made("create") :
         x < c /\ calls[x].key \in DataIds
    /\ Made("update") # {}
    /\ HasCall("create", TRUE) =>
         \E c \in Made("create") :
           /\ Len(calls) = c + 2
           /\ calls[c + 1].op = "persist"
           /\ calls[c + 1].key = access_key
           /\ calls[c + 2].op = "newkey_notice"
           /\ calls[c + 2].key = access_key
    /\ HasCall("create", FALSE) => calls[Len(calls)].op = "create"
    /\ AllOk =>
         /\ Cardinality(Made("delete")) = 2
         /\ IamIds(username) = {access_key}
         /\ PersistedKey(username) = access_key

C13_Witness ==
  /\ TwoKeys(2) /\ pc = "next" /\ AllOk
  /\ Cardinality(Made("delete")) = 2
  /\ HasCall("persist", TRUE) /\ HasCall("newkey_notice", TRUE)
  /\ IamIds(username) = {access_key}

C15_NoOp ==
  ((OneKey("active") \/ TwoKeys(0)) /\ InUser) =>
    /\ \A i \in DOMAIN calls : calls[i].op \in {"list", "final_notice"}
    /\ pc \in {"final", "next", "except"}
    /\ Len(iam[username]) = Len(access_key_data)
    /\ \A i \in DOMAIN access_key_data : Untouched(i)
    /\ PersistedKey(username) =
         access_key_data[Len(access_key_data)].AccessKeyId

C15_Witness ==
  /\ TwoKeys(0) /\ pc = "next"
  /\ HasCall("final_notice", TRUE)
  /\ \A i \in DOMAIN access_key_data : Untouched(i)

\* C16: a principal with SKIP_KEY_ROTATION set is never acted on: it is not
\* among the users of the pass, so no call is made for it, and its keys in
\* IAM and its Snowflake row stay as they were.
C16_SkippedNeverActedOn ==
  \A r \in DOMAIN table :
    table[r].SKIP_KEY_ROTATION = "Y" =>
      LET u == table[r].USERNAME
      IN /\ u \notin evaluated
         /\ \A i \in DOMAIN users : users[i] # u
         /\ iam[u] \in {KeysFromAges(u, a) : a \in KeyLists(SkipAgeSamples)}
         /\ table[r].ACCESS_KEY = StoredKey(iam[u])

C16_Witness ==
  /\ pc = "done"
  /\ evaluated # {}
  /\ \E r \in DOMAIN table :
       /\ table[r].SKIP_KEY_ROTATION = "Y"
       /\ Len(iam[table[r].USERNAME]) = 2
       /\ \A k \in 1..2 :
            now - iam[table[r].USERNAME][k].CreateDate
              > ExpirationAge + GracePeriod

\* C17: when list_access_keys fails for a principal nothing more is done for
\* it in the pass: no create, deactivate, delete or persistence call and no
\* new-key notification.
C17_ListFailureAbandons ==
  (InUser /\ HasCall("list", FALSE)) =>
    \A i \in DOMAIN calls : calls[i].op = "list"

\* C18: when the listing of a principal returns more than two keys the pass
\* makes no call for it after the listing, whatever the statuses of the keys:
\* nothing is created, deactivated, deleted, persisted or notified.
C18_MoreThanTwoKeys ==
  (Len(access_key_data) > 2 /\ idx <= Len(users) /\ pc # "list") =>
    /\ pc = "next"
    /\ calls = <<Call("list", TRUE, 0, 0)>>
    /\ Len(iam[username]) = Len(access_key_data)
    /\ \A i \in DOMAIN access_key_data : Untouched(i)
    /\ PersistedKey(username) =
         access_key_data[Len(access_key_data)].AccessKeyId

C18_Witness ==
  /\ Len(access_key_data) = 3 /\ idx <= Len(users) /\ pc = "next"
  /\ \E i \in 1..3 : access_key_data[i].Status = "expired"
  /\ \E i \in 1..3 : access_key_data[i].FinalReminder
  /\ Len(iam[username]) = 3

\* C19: what the pass does for a principal is decided by that principal's own
\* classified keys, whoever was processed before it.  A final notice then
\* names a key of the principal it is sent for: the id of another principal's
\* key is no function of this principal's keys.
C19_FinalNoticeNamesOwnKey ==
  InUser => \A f \in Made("final_notice") : calls[f].old \in DataIds

\* C20: create_access_key is called for a principal only while it holds fewer
\* than two keys in IAM.  Stated for the principals whose listing succeeded.
C20_CreateOnlyBelowQuota ==
  (pc = "create" /\ idx <= Len(users) /\ Listed) =>
    Len(iam[username]) < IamKeyQuota

\* ----------------------------------------------------------------- C21 - C22
\* C21: at the end of a pass the key id in a principal's Snowflake row names a
\* key that still exists in IAM: no key the row points to is deleted before
\* its replacement is recorded, whatever collaborator call fails.  Stated when
\* the pass has finished with a principal, which it does not touch again, and
\* for the principals whose row named their youngest key when they were
\* listed.
C21_PersistedKeyExists ==
  (/\ pc = "next"
   /\ Listed
   /\ Len(access_key_data) >= 1
   /\ \A i \in DOMAIN access_key_data :
        access_key_data[i].KeyAge
          >= access_key_data[Len(access_key_data)].KeyAge) =>
    PersistedKey(username) \in IamIds(username)

\* C22: over repeated passes, for a principal none of whose calls fails in the
\* pass: a single 'about_to_expire' key gets one replacement; while the old
\* key is 'about_to_expire' next to its replacement nothing more is created;
\* and the pass that classifies the old key 'expired' next to its younger
\* replacement deletes it and leaves the principal with the replacement alone.
C22_OneReplacementPerKey ==
  (/\ pc \in {"next", "except"}
   /\ idx <= Len(users)
   /\ Listed /\ AllOk) =>
    /\ OneKey("about_to_expire") =>
         /\ Cardinality(Made("create")) = 1
         /\ IamIds(username) = DataIds \cup {access_key}
    /\ (TwoKeys(0) /\ access_key_data[1].Status = "about_to_expire"
          /\ access_key_data[2].KeyAge < access_key_data[1].KeyAge) =>
         /\ Made("create") = {}
         /\ IamIds(username) = DataIds
    /\ (TwoKeys(1) /\ access_key_data[1].Status = "expired"
          /\ access_key_data[2].KeyAge < access_key_data[1].KeyAge) =>
         IamIds(username) = {access_key_data[2].AccessKeyId}

====
